---- MODULE Spec2Model ----
(***************************************************************************)
(* A model of the nesfab language server's project index                   *)
(* (src/src/backend.rs, src/src/cfg.rs, src/src/symbol.rs): the five       *)
(* shared stores of Backend, the handlers that write them (on_change,      *)
(* on_change_workspace_folders, initialize), the queries that read them    *)
(* (hover, goto_definition) and the pure functions they rest on            *)
(* (collect_cfg_map, traverse_tree, SymbolTable::find_symbol).             *)
(*                                                                         *)
(* Paths are sequences of components, <<"w", "main.fab">> for /w/main.fab. *)
(* A source text is named by a string; the external parser's result for    *)
(* it (tree_sitter_nesfab is not part of the repository) is the table      *)
(* Parse below: a syntax tree is the sequence of its nodes in document     *)
(* order (preorder), each node naming its parent by index.                 *)
(***************************************************************************)
EXTENDS Integers, Sequences, FiniteSets, Bags, TLC

\* ---------------------------------------------------------------- bounds

\* on_change calls (did_open / did_change events) in one behaviour
MaxUpdates == 2
\* did_change_workspace_folders events in one behaviour (the one that
\* `initialized` raises comes on top)
MaxRefreshes == 1
\* on_change_workspace_folders handlers suspended at an await at one time
MaxInFlight == 1

\* the longest generated source, in top-level items
MaxItems == 3

\* updates and workspace-folder changes handled before the initialized
\* handler has finished
MaxEarly == 1

\* ------------------------------------------------------------ the disk

\* option_env!("NESFAB"): the fallback base directory, fixed at build time
nesfab_path == <<"lib">>

\* the directories that exist on disk
DiskDirs == { <<>>, <<"w">>, <<"w", "sub">>, <<"y">>, <<"lib">> }

\* the regular files that exist on disk
DiskFiles ==
  { <<"w", "game.cfg">>, <<"w", "main.fab">>, <<"w", "bin.fab">>,
    <<"w", "gfx.macrofab">>,
    <<"w", "sub", "sub.cfg">>, <<"w", "sub", "alt.cfg">>,
    <<"w", "sub", "extra.fab">>,
    <<"y", "y.cfg">>,
    <<"lib", "util.fab">> }

\* Path::extension of a file name ("" is Option::None)
Extension(name) ==
  CASE name \in {"main.fab", "util.fab", "extra.fab", "bin.fab", "gone.fab"} -> "fab"
    [] name \in {"game.cfg", "sub.cfg", "alt.cfg", "y.cfg"} -> "cfg"
    [] name = "gfx.macrofab" -> "macrofab"
    [] OTHER -> ""

\* Path::extension of a path: that of its last component
PathExtension(path) ==
  IF path = <<>> THEN "" ELSE Extension(path[Len(path)])

\* Path::parent
Parent(path) == SubSeq(path, 1, Len(path) - 1)

\* Path::starts_with / strip_prefix succeeding: base is a component prefix
IsPrefix(base, path) ==
  /\ Len(base) <= Len(path)
  /\ SubSeq(path, 1, Len(base)) = base

\* Path::new(s): the components of a path written in a config file
PathNew(s) ==
  CASE s = "main.fab" -> [abs |-> FALSE, comps |-> <<"main.fab">>]
    [] s = "util.fab" -> [abs |-> FALSE, comps |-> <<"util.fab">>]
    [] s = "gone.fab" -> [abs |-> FALSE, comps |-> <<"gone.fab">>]
    [] s = "bin.fab" -> [abs |-> FALSE, comps |-> <<"bin.fab">>]
    [] s = "gfx.macrofab" -> [abs |-> FALSE, comps |-> <<"gfx.macrofab">>]
    [] s = "./extra.fab" -> [abs |-> FALSE, comps |-> <<".", "extra.fab">>]
    [] s = "../main.fab" -> [abs |-> FALSE, comps |-> <<"..", "main.fab">>]
    [] s = "/lib/util.fab" -> [abs |-> TRUE, comps |-> <<"lib", "util.fab">>]
    [] OTHER -> [abs |-> FALSE, comps |-> <<s>>]

\* Path::join: an absolute right-hand side replaces the base
Join(base, ref) == IF ref.abs THEN ref.comps ELSE base \o ref.comps

\* fs::canonicalize, component by component: "." is dropped, ".." pops, every
\* prefix walked through must be an existing directory and the result must
\* exist. The result is a set: {p} is Ok(p), {} is Err.
RECURSIVE Resolve(_, _)
Resolve(done, rest) ==
  IF rest = <<>>
    THEN IF done \in DiskDirs \cup DiskFiles THEN {done} ELSE {}
    ELSE IF done \notin DiskDirs THEN {}
    ELSE IF Head(rest) = "." THEN Resolve(done, Tail(rest))
    ELSE IF Head(rest) = ".." THEN Resolve(Parent(done), Tail(rest))
    ELSE Resolve(Append(done, Head(rest)), Tail(rest))

canonicalize(path) == Resolve(<<>>, path)

\* the lines of a config file: whether the raw line starts with "input", and
\* its split('=') parts, trimmed
CfgLines(file) ==
  CASE file = <<"w", "game.cfg">> ->
         << [starts_with_input |-> FALSE, parts |-> <<"output", "game.nes">>],
            [starts_with_input |-> TRUE, parts |-> <<"input", "main.fab">>],
            [starts_with_input |-> TRUE, parts |-> <<"input", "util.fab">>],
            [starts_with_input |-> TRUE, parts |-> <<"input", "gone.fab">>],
            [starts_with_input |-> TRUE, parts |-> <<"input", "bin.fab">>],
            [starts_with_input |-> TRUE, parts |-> <<"input", "gfx.macrofab">>],
            [starts_with_input |-> TRUE, parts |-> <<"input", "main.fab", "x">>] >>
    [] file = <<"w", "sub", "sub.cfg">> ->
         << [starts_with_input |-> TRUE, parts |-> <<"input", "../main.fab">>],
            [starts_with_input |-> TRUE, parts |-> <<"input", "./extra.fab">>] >>
    [] file = <<"w", "sub", "alt.cfg">> ->
         << [starts_with_input |-> TRUE, parts |-> <<"input", "/lib/util.fab">>],
            [starts_with_input |-> TRUE, parts |-> <<"input">>] >>
    [] file = <<"y", "y.cfg">> ->
         << [starts_with_input |-> TRUE, parts |-> <<"input", "gone.fab">>] >>
    [] OTHER -> << >>

\* the elements of a sequence
Range(s) == { s[i] : i \in DOMAIN s }

\* extract_inputs: the value of every line that starts with "input" and has
\* exactly two '='-separated parts
extract_inputs(file) ==
  { PathNew(l.parts[2]) :
      l \in { m \in Range(CfgLines(file)) :
                m.starts_with_input /\ Len(m.parts) = 2 } }

\* WalkDir::new(root), errors dropped: every file at or below root
WalkDir(root) == { f \in DiskFiles : IsPrefix(root, f) }

\* collect_cfg_map, first half: the config files under the given directories
cfg_file_paths(files) ==
  { f \in UNION { WalkDir(d) : d \in files } : PathExtension(f) = "cfg" }

\* collect_cfg_map, the filter_map of one reference: relative to the config
\* file's directory first, to nesfab_path second
ResolveInput(cfg_dir, ref) ==
  IF canonicalize(Join(cfg_dir, ref)) # {}
    THEN canonicalize(Join(cfg_dir, ref))
    ELSE canonicalize(Join(nesfab_path, ref))

\* a value that keeps every resolved reference, whatever its extension
ResolvedInputsUnfiltered(cfg_file) ==
  UNION { ResolveInput(Parent(cfg_file), r) : r \in extract_inputs(cfg_file) }

\* collect_cfg_map, the value built for one config file: the resolved
\* references that have the extension "fab"
ResolvedInputs(cfg_file) ==
  { p \in UNION { ResolveInput(Parent(cfg_file), r) : r \in extract_inputs(cfg_file) } :
      PathExtension(p) = "fab" }

\* collect_cfg_map: the maps the final collect::<HashMap> can produce. The
\* pairs arrive in the iteration order of a HashSet, and a later pair with
\* the same key replaces an earlier one, so a directory holding several
\* config files keeps the value of any one of them.
collect_cfg_map(files) ==
  LET cfgs == cfg_file_paths(files)
      dirs == { Parent(c) : c \in cfgs }
  IN  { [d \in dirs |-> ResolvedInputs(pick[d])] :
          pick \in { f \in [dirs -> cfgs] : \A d \in dirs : Parent(f[d]) = d } }

\* ------------------------------------------------- syntax trees (inputs)

\* the bytes of the source texts of the model (all ASCII)
TextOf(source) ==
  CASE source = "TxtLib" ->
         "// adds two numbers\nfn add(U a, U b) U\n    return a + b\nvars /game\n    U score = 0\n"
    [] source = "TxtMain" -> "fn main()\n    U score = 1\n    add(score, 2)\n"
    [] source = "TxtRefs" -> "U add = 0\nfn score()\n    score()\n    add()\n    x = score\n"
    [] source = "TxtBroken" -> "U lives = 3\nfn\nlives\n"

\* the byte offset at which line `row` of a text starts, counted from
\* offset i on (the end of the text when it has fewer lines)
RECURSIVE LineStart(_, _, _)
LineStart(text, row, i) ==
  IF row = 0 \/ i >= Len(text) THEN i
  ELSE LineStart(text, IF SubSeq(text, i + 1, i + 1) = "\n" THEN row - 1 ELSE row, i + 1)

\* the nodes of the tree of a text with Node::start_byte and end_byte
WithBytes(text, nodes) ==
  [i \in DOMAIN nodes |->
     [kind |-> nodes[i].kind, named |-> nodes[i].named, parent |-> nodes[i].parent,
      field |-> nodes[i].field, text |-> nodes[i].text,
      srow |-> nodes[i].srow, scol |-> nodes[i].scol,
      erow |-> nodes[i].erow, ecol |-> nodes[i].ecol,
      sbyte |-> LineStart(text, nodes[i].srow, 0) + nodes[i].scol,
      ebyte |-> LineStart(text, nodes[i].erow, 0) + nodes[i].ecol]]

\* one node of a syntax tree: kind() and is_named(), the index of parent()
\* (0 at the root), the field name it has in its parent, utf8_text(), and
\* start_position() / end_position()
N(kind, named, parent, field, text, srow, scol, erow, ecol) ==
  [kind |-> kind, named |-> named, parent |-> parent, field |-> field,
   text |-> text, srow |-> srow, scol |-> scol, erow |-> erow, ecol |-> ecol]

\* util.fab:   // adds two numbers
\*             fn add(U a, U b) U
\*                 return a + b
\*             vars /game
\*                 U score = 0
TreeLib ==
  WithBytes(TextOf("TxtLib"),
  << N("module", TRUE, 0, "", "", 0, 0, 5, 0),
     N("comment", TRUE, 1, "", "// adds two numbers", 0, 0, 0, 19),
     N("function_definition", TRUE, 1, "", "", 1, 0, 3, 0),
     N("function_signature", TRUE, 3, "signature", "fn add(U a, U b) U", 1, 0, 1, 18),
     N("identifier", TRUE, 4, "name", "add", 1, 3, 1, 6),
     N("vars_definition", TRUE, 1, "", "", 3, 0, 5, 0),
     N("variable_definition", TRUE, 6, "", "U score = 0", 4, 4, 4, 15),
     N("identifier", TRUE, 7, "name", "score", 4, 6, 4, 11) >>)

\* main.fab:   fn main()
\*                 U score = 1
\*                 add(score, 2)
TreeMain ==
  WithBytes(TextOf("TxtMain"),
  << N("module", TRUE, 0, "", "", 0, 0, 3, 0),
     N("function_definition", TRUE, 1, "", "", 0, 0, 3, 0),
     N("function_signature", TRUE, 2, "signature", "fn main()", 0, 0, 0, 9),
     N("identifier", TRUE, 3, "name", "main", 0, 3, 0, 7),
     N("block", TRUE, 2, "", "", 1, 4, 3, 0),
     N("variable_definition", TRUE, 5, "", "U score = 1", 1, 4, 1, 15),
     N("identifier", TRUE, 6, "name", "score", 1, 6, 1, 11),
     N("call", TRUE, 5, "", "add(score, 2)", 2, 4, 2, 17),
     N("identifier", TRUE, 8, "", "add", 2, 4, 2, 7),
     N("arguments", TRUE, 8, "", "(score, 2)", 2, 7, 2, 17),
     N("identifier", TRUE, 10, "", "score", 2, 8, 2, 13) >>)

\* an edited buffer:   U add = 0
\*                     fn score()
\*                         score()
\*                         add()
\*                         x = score
TreeRefs ==
  WithBytes(TextOf("TxtRefs"),
  << N("module", TRUE, 0, "", "", 0, 0, 5, 0),
     N("variable_definition", TRUE, 1, "", "U add = 0", 0, 0, 0, 9),
     N("identifier", TRUE, 2, "name", "add", 0, 2, 0, 5),
     N("function_definition", TRUE, 1, "", "", 1, 0, 5, 0),
     N("function_signature", TRUE, 4, "signature", "fn score()", 1, 0, 1, 10),
     N("identifier", TRUE, 5, "name", "score", 1, 3, 1, 8),
     N("block", TRUE, 4, "", "", 2, 4, 5, 0),
     N("call", TRUE, 7, "", "score()", 2, 4, 2, 11),
     N("identifier", TRUE, 8, "", "score", 2, 4, 2, 9),
     N("call", TRUE, 7, "", "add()", 3, 4, 3, 9),
     N("identifier", TRUE, 10, "", "add", 3, 4, 3, 7),
     N("assignment", TRUE, 7, "", "x = score", 4, 4, 4, 13),
     N("identifier", TRUE, 12, "", "score", 4, 8, 4, 13) >>)

\* a buffer in mid-edit:   U lives = 3
\*                         fn
\*                         lives
\* whose function_definition node has no signature child and whose last
\* identifier hangs directly under the module
TreeBroken ==
  WithBytes(TextOf("TxtBroken"),
  << N("module", TRUE, 0, "", "", 0, 0, 3, 0),
     N("variable_definition", TRUE, 1, "", "U lives = 3", 0, 0, 0, 11),
     N("identifier", TRUE, 2, "name", "lives", 0, 2, 0, 7),
     N("function_definition", TRUE, 1, "", "fn", 1, 0, 1, 2),
     N("identifier", TRUE, 1, "", "lives", 2, 0, 2, 5) >>)

\* the source texts of the model, by name
Texts == {"TxtLib", "TxtMain", "TxtRefs", "TxtBroken"}

\* Parser::parse(source, None): {tree} is Some(tree), {} is None. The
\* language is set before every parse (backend.rs:55) and the parser has
\* neither a timeout nor a cancellation flag, so every text has a tree: a
\* malformed text (TxtBroken) one with incomplete nodes.
Parse(source) ==
  CASE source = "TxtLib" -> {TreeLib}
    [] source = "TxtMain" -> {TreeMain}
    [] source = "TxtRefs" -> {TreeRefs}
    [] source = "TxtBroken" -> {TreeBroken}

\* std::fs::read_to_string(file): {text} is Ok(text), {} is Err (a missing
\* file, or one that is not UTF-8 such as bin.fab)
read_to_string(file) ==
  CASE file = <<"lib", "util.fab">> -> {"TxtLib"}
    [] file = <<"w", "main.fab">> -> {"TxtMain"}
    [] file = <<"w", "sub", "extra.fab">> -> {"TxtBroken"}
    [] OTHER -> {}

\* generated sources: up to MaxItems top-level items with `gap` blank lines
\* above each. An item is a comment line, a function (a signature line with
\* one parameter and a body line with one local variable), a global variable
\* line, or a vars block (a header line and one variable line). Functions
\* and variables take their names from Names, so names can repeat.
ItemKinds == {"comment", "function", "variable", "vars"}
Gaps == {0, 1}
Names == {"a", "b"}
Items == [kind : ItemKinds, gap : Gaps, name : Names]
Layouts == UNION { [1..n -> Items] : n \in 1..MaxItems }

\* the text of an item; a comment's text tells its position k
Digit(k) == <<"1", "2", "3", "4", "5", "6", "7", "8", "9">>[k]
CommentText(k) == "// c" \o Digit(k)
FnName(item) == "f" \o item.name
VarName(item) == "v" \o item.name
SigText(item) == "fn " \o FnName(item) \o "(U " \o VarName(item) \o ")"
VarText(item) == "U " \o VarName(item) \o " = 0"

\* the nodes of the k-th item, starting on line `row`, when `count` nodes
\* precede them in the tree. The parameter and the local variable are given
\* the kind variable_definition, the kind closest to a global variable's.
ItemNodes(item, k, row, count) ==
  CASE item.kind = "comment" ->
         << N("comment", TRUE, 1, "", CommentText(k), row, 0, row, 5) >>
    [] item.kind = "function" ->
         << N("function_definition", TRUE, 1, "", "", row, 0, row + 2, 0),
            N("function_signature", TRUE, count + 1, "signature", SigText(item), row, 0, row, 11),
            N("identifier", TRUE, count + 2, "name", FnName(item), row, 3, row, 5),
            N("parameters", TRUE, count + 2, "", "", row, 5, row, 11),
            N("variable_definition", TRUE, count + 4, "", "U " \o VarName(item), row, 6, row, 10),
            N("identifier", TRUE, count + 5, "name", VarName(item), row, 8, row, 10),
            N("block", TRUE, count + 1, "", "", row + 1, 4, row + 2, 0),
            N("variable_definition", TRUE, count + 7, "", "U " \o VarName(item) \o " = 1", row + 1, 4, row + 1, 12),
            N("identifier", TRUE, count + 8, "name", VarName(item), row + 1, 6, row + 1, 8) >>
    [] item.kind = "variable" ->
         << N("variable_definition", TRUE, 1, "", VarText(item), row, 0, row, 8),
            N("identifier", TRUE, count + 1, "name", VarName(item), row, 2, row, 4) >>
    [] OTHER ->
         << N("vars_definition", TRUE, 1, "", "", row, 0, row + 2, 0),
            N("variable_definition", TRUE, count + 1, "", VarText(item), row + 1, 4, row + 1, 12),
            N("identifier", TRUE, count + 2, "name", VarName(item), row + 1, 6, row + 1, 8) >>

\* the lines an item takes
ItemHeight(item) == IF item.kind \in {"function", "vars"} THEN 2 ELSE 1

\* the nodes of a generated source after its module node, items k.. placed
\* from line `row` on
RECURSIVE LayoutNodes(_, _, _, _)
LayoutNodes(layout, k, row, nodes) ==
  IF k > Len(layout) THEN nodes
  ELSE LET start == row + layout[k].gap
       IN  LayoutNodes(layout, k + 1, start + ItemHeight(layout[k]),
                       nodes \o ItemNodes(layout[k], k, start, Len(nodes)))

\* Parser::parse of a generated source
LayoutTree(layout) ==
  LET nodes == LayoutNodes(layout, 1, 0, << N("module", TRUE, 0, "", "", 0, 0, 0, 0) >>)
  IN  [nodes EXCEPT ![1].erow = nodes[Len(nodes)].erow + 1]

\* ------------------------------------------------------ symbol.rs

\* Node::prev_sibling: the nearest earlier node with the same parent (0: none)
prev_sibling(tree, i) ==
  LET before == { j \in 1..(i - 1) : tree[j].parent = tree[i].parent }
  IN  IF before = {} \/ tree[i].parent = 0 THEN 0
      ELSE CHOOSE j \in before : \A k \in before : k <= j

\* Node::child_by_field_name: the first child with that field (0: none)
child_by_field_name(tree, i, field) ==
  LET found == { j \in DOMAIN tree : tree[j].parent = i /\ tree[j].field = field }
  IN  IF found = {} THEN 0 ELSE CHOOSE j \in found : \A k \in found : j <= k

\* collect_sibling_comment_nodes, the loop: pivot is the node looked at (0:
\* none), pivot_line_number the start row of the node accepted before it
RECURSIVE CollectLoop(_, _, _, _)
CollectLoop(tree, pivot, pivot_line_number, comments) ==
  IF pivot = 0 THEN comments
  ELSE IF tree[pivot].kind = "comment"
          /\ pivot_line_number - tree[pivot].erow <= 1
    THEN CollectLoop(tree, prev_sibling(tree, pivot), tree[pivot].srow,
                     Append(comments, pivot))
    ELSE comments

\* collect_sibling_comment_nodes(node): nearest comment first
collect_sibling_comment_nodes(tree, node) ==
  CollectLoop(tree, node, tree[node].srow, << >>)

\* a fold that starts from the nearest comment, so that the lines come out
\* bottom-to-top
RECURSIVE FoldComments(_, _)
FoldComments(tree, comments) ==
  IF comments = << >> THEN ""
  ELSE tree[comments[1]].text \o "\n"
         \o FoldComments(tree, SubSeq(comments, 2, Len(comments)))

\* comments.iter().rfold(String::new(), |acc, x| acc + text(x) + "\n")
RECURSIVE RFoldComments(_, _)
RFoldComments(tree, comments) ==
  IF comments = << >> THEN ""
  ELSE tree[comments[Len(comments)]].text \o "\n"
         \o RFoldComments(tree, SubSeq(comments, 1, Len(comments) - 1))

\* the `comments` field of both symbols: {} is None (no previous sibling),
\* {s} is Some(s)
CommentsOf(tree, i) ==
  IF prev_sibling(tree, i) = 0 THEN {}
  ELSE { RFoldComments(tree, collect_sibling_comment_nodes(tree, prev_sibling(tree, i))) }

\* comments.clone().unwrap_or("".to_string())
UnwrapOrEmpty(comments) == IF comments = {} THEN "" ELSE CHOOSE s \in comments : TRUE

\* the lsp Range built from Node::range
RangeOf(node) ==
  [start |-> [line |-> node.srow, character |-> node.scol],
   end |-> [line |-> node.erow, character |-> node.ecol]]

\* FunctionSymbol::from_node: {} is Err (no signature child, or no name in it)
FunctionSymbol_from_node(tree, i) ==
  LET signature == child_by_field_name(tree, i, "signature")
      name == IF signature = 0 THEN 0 ELSE child_by_field_name(tree, signature, "name")
      comments == CommentsOf(tree, i)
  IN  IF signature = 0 \/ name = 0 THEN {}
      ELSE { [name |-> tree[name].text,
              range |-> RangeOf(tree[i]),
              description |-> UnwrapOrEmpty(comments) \o tree[signature].text,
              signature |-> tree[signature].text,
              comments |-> comments] }

\* VariableSymbol::from_node: {} is Err (no name child)
VariableSymbol_from_node(tree, i) ==
  LET name == child_by_field_name(tree, i, "name")
      comments == CommentsOf(tree, i)
  IN  IF name = 0 THEN {}
      ELSE { [name |-> tree[name].text,
              range |-> RangeOf(tree[i]),
              description |-> UnwrapOrEmpty(comments) \o tree[i].text,
              comments |-> comments] }

\* an insert that keeps the value a key already has
InsertIfAbsent(map, key, value) ==
  [k \in DOMAIN map \cup {key} |-> IF k \in DOMAIN map THEN map[k] ELSE value]

\* HashMap::insert(key, value): the value replaces any earlier one
Insert(map, key, value) ==
  [k \in DOMAIN map \cup {key} |-> IF k = key THEN value ELSE map[k]]

\* SymbolTable::default()
SymbolTable_default == [functions |-> << >>, global_variables |-> << >>]

\* a match that takes every variable definition, whatever its parent
VisitAnyVariable(tree, i, symbol_table) ==
  LET node == tree[i] IN
  IF node.named /\ node.kind \in {"function_definition", "asm_function_definition"}
    THEN { [symbol_table EXCEPT
              !.functions = Insert(symbol_table.functions, symbol.name, symbol)] :
           symbol \in FunctionSymbol_from_node(tree, i) }
  ELSE IF node.named /\ node.kind = "variable_definition"
    THEN { [symbol_table EXCEPT
              !.global_variables =
                 Insert(symbol_table.global_variables, symbol.name, symbol)] :
           symbol \in VariableSymbol_from_node(tree, i) }
  ELSE { symbol_table }

\* traverse_tree, the match on one named node: {} is the `?` that aborts
Visit(tree, i, symbol_table) ==
  LET node == tree[i] IN
  IF node.named /\ node.kind \in {"function_definition", "asm_function_definition"}
    THEN { [symbol_table EXCEPT
              !.functions = Insert(symbol_table.functions, symbol.name, symbol)] :
           symbol \in FunctionSymbol_from_node(tree, i) }
  ELSE IF /\ node.named /\ node.kind = "variable_definition"
          /\ node.parent # 0
          /\ tree[node.parent].kind \in {"module", "vars_definition"}
    THEN { [symbol_table EXCEPT
              !.global_variables =
                 Insert(symbol_table.global_variables, symbol.name, symbol)] :
           symbol \in VariableSymbol_from_node(tree, i) }
  ELSE { symbol_table }

\* traverse_tree from the root: the cursor visits a node, then its children,
\* then its following siblings, which is the order of the node sequence; the
\* first failing node ends the walk. {} is Err, {table} is Ok.
RECURSIVE traverse_tree(_, _, _)
traverse_tree(tree, i, symbol_table) ==
  IF i > Len(tree) THEN { symbol_table }
  ELSE UNION { traverse_tree(tree, i + 1, t) : t \in Visit(tree, i, symbol_table) }

\* SymbolTable::from_source: parse, then traverse_tree; {} is Err
SymbolTable_from_source(source) ==
  UNION { traverse_tree(tree, 1, SymbolTable_default) : tree \in Parse(source) }

\* SymbolTable::from_source of every text of the model, computed once
ExtractedTables == [source \in Texts |-> SymbolTable_from_source(source)]

\* read_to_string, then SymbolTable::from_source, of every file on disk
ExtractedFiles ==
  [file \in DiskFiles |->
     UNION { ExtractedTables[source] : source \in read_to_string(file) }]

\* the Symbol trait object a lookup returns: the variant, description()
\* and range()
BoxSymbol(variant, s) ==
  [variant |-> variant, description |-> s.description, range |-> s.range]

\* HashMap::get(name).map(Box::new)
GetSymbol(map, variant, name) ==
  IF name \in DOMAIN map THEN { BoxSymbol(variant, map[name]) } ELSE {}

\* a lookup that tries the function table first and the global-variable
\* table second wherever the identifier is neither a call nor in a header
find_symbol_functions_first(symbol_table, tree, node, name) ==
  LET parent == tree[node].parent IN
  IF parent = 0 THEN {}
  ELSE IF tree[parent].kind = "call"
    THEN GetSymbol(symbol_table.functions, "function", name)
  ELSE IF tree[parent].parent = 0 THEN {}
  ELSE IF tree[tree[parent].parent].kind
            \in {"function_definition", "asm_function_definition"}
    THEN GetSymbol(symbol_table.functions, "function", name)
  ELSE IF name \in DOMAIN symbol_table.functions
    THEN GetSymbol(symbol_table.functions, "function", name)
  ELSE GetSymbol(symbol_table.global_variables, "variable", name)

\* SymbolTable::find_symbol(node, name): {} is Err (no parent, no
\* grandparent, or no entry), {symbol} is Ok
SymbolTable_find_symbol(symbol_table, tree, node, name) ==
  LET parent == tree[node].parent IN
  IF parent = 0 THEN {}
  ELSE IF tree[parent].kind = "call"
    THEN GetSymbol(symbol_table.functions, "function", name)
  ELSE IF tree[parent].parent = 0 THEN {}
  ELSE IF tree[tree[parent].parent].kind
            \in {"function_definition", "asm_function_definition"}
    THEN GetSymbol(symbol_table.functions, "function", name)
  ELSE GetSymbol(symbol_table.global_variables, "variable", name)

\* ------------------------------------------------------ backend.rs

\* a URI: its scheme, its host ("" when it has none), whether it is a
\* cannot-be-a-base URL (its path does not start with a slash, so it has no
\* path segments), and its path
Url(scheme, host, cannot_be_a_base, path) ==
  [scheme |-> scheme, host |-> host, cannot_be_a_base |-> cannot_be_a_base,
   path |-> path]

\* Url::from_file_path: the file URI of an absolute path
FileUri(path) == Url("file", "", FALSE, path)

\* Url::to_file_path: {path} is Ok(path), {} is Err. The scheme is not
\* looked at: the conversion is Ok for every URL that has path segments and
\* no host other than localhost.
to_file_path(uri) ==
  IF ~uri.cannot_be_a_base /\ uri.host \in {"", "localhost"}
    THEN {uri.path} ELSE {}

\* the documents the editor sends events and queries for: two files, a
\* notebook cell of the first (vscode-notebook-cell:/w/main.fab) and an
\* unsaved buffer (untitled:Untitled-1)
Uris ==
  { FileUri(<<"w", "main.fab">>), FileUri(<<"lib", "util.fab">>),
    Url("vscode-notebook-cell", "", FALSE, <<"w", "main.fab">>),
    Url("untitled", "", TRUE, <<"Untitled-1">>) }

\* the folders the editor registers, adds and removes
Folders == { FileUri(<<"w">>), FileUri(<<"w", "sub">>), FileUri(<<"y">>) }

\* the workspace_folders lists of InitializeParams
InitialFolders == { {}, {FileUri(<<"w">>), FileUri(<<"w", "sub">>)} }

\* the added / removed lists of a WorkspaceFoldersChangeEvent
AddedLists == { a \in SUBSET Folders : Cardinality(a) <= 2 }
RemovedLists == { {}, {FileUri(<<"w">>)} }

\* a cursor position (tree_sitter::Point)
Point(row, column) == [row |-> row, column |-> column]

\* the cursor positions of queries: the start of a file (no identifier in
\* any sample text), the name in a header on line 1, the callee of the calls
\* on lines 2 and 3, the argument `score` of main.fab and the right-hand
\* side `score` of the edited buffer
Points ==
  { Point(0, 0), Point(1, 3), Point(2, 4), Point(3, 4), Point(2, 8), Point(4, 8) }

VARIABLES
  source_map,      \* Backend.source_map: path -> text
  tree_map,        \* Backend.tree_map: path -> tree
  symbol_map,      \* Backend.symbol_map: path -> SymbolTable
  cfg_map,         \* Backend.cfg_map: config directory -> set of paths
  workspace_dirs,  \* Backend.workspace_dirs
  inflight,        \* the on_change_workspace_folders handlers suspended at
                   \* the await of their insert loop: for each, the entries of
                   \* its local symbol_map it has still to insert
  phase,           \* the session: "uninitialized"; "initialize" once
                   \* initialize has answered; "initialized" while the
                   \* initialized handler is under way; "ready" after it;
                   \* "panicked" once a handler has panicked
  initialized_added, \* the `added` list of the initialized handler between
                   \* its two awaits: {} before it is built (Option as a set)
  ret,             \* what the handler that ran last returned
  latest,          \* history: per path, the text whose parse and extraction
                   \* succeeded last (in on_change or in the bulk indexing)
  updates,         \* on_change calls so far
  refreshes        \* on_change_workspace_folders calls so far

vars == <<source_map, tree_map, symbol_map, cfg_map, workspace_dirs, inflight,
          phase, initialized_added, ret, latest, updates, refreshes>>

\* the phases in which the server takes requests and notifications: every
\* one after the answer to initialize
Serving == {"initialize", "initialized", "ready"}

\* whether one more update or refresh is let in: any number once the
\* initialized handler has finished, MaxEarly before that
Admitted == phase = "ready" \/ (phase \in Serving /\ updates + refreshes < MaxEarly)

\* the stores of Backend
stores == <<source_map, tree_map, symbol_map, cfg_map, workspace_dirs>>

\* a handler's return: Err, or Ok with a value ({} is None / unit)
Ret(op, path, status, value) ==
  [op |-> op, path |-> path, status |-> status, value |-> value]

\* Backend::new: every store empty
Init ==
  /\ source_map = << >>
  /\ tree_map = << >>
  /\ symbol_map = << >>
  /\ cfg_map = << >>
  /\ workspace_dirs = {}
  /\ inflight = << >>
  /\ phase = "uninitialized"
  /\ initialized_added = {}
  /\ ret = Ret("new", << >>, "ok", {})
  /\ latest = << >>
  /\ updates = 0
  /\ refreshes = 0

\* to_path_buf_set: the folders whose URI converts to a path
to_path_buf_set(workspace_folders) ==
  UNION { to_file_path(dir) : dir \in workspace_folders }

\* collect_cfg_map of every set of folders the editor can name, computed once
CollectedCfgMaps ==
  [files \in SUBSET to_path_buf_set(Folders) |-> collect_cfg_map(files)]

\* a text store that is written only once the whole update succeeded
OnChangeSourceIfExtracted(file_path, source) ==
  IF ExtractedTables[source] = {} THEN source_map
  ELSE Insert(source_map, file_path, source)

\* on_change: the three stores after update_file(file_path, source). The text
\* is inserted first; the tree once the parse succeeded; the table once
\* traverse_tree succeeded.
OnChangeSource(file_path, source) == Insert(source_map, file_path, source)


\* a tree store that forgets the tree of a file whose text arrives again
\* unchanged
OnChangeTreeDroppingResent(file_path, source) ==
  IF file_path \in DOMAIN source_map /\ source_map[file_path] = source
    THEN [p \in (DOMAIN tree_map) \ {file_path} |-> tree_map[p]]
  ELSE IF Parse(source) = {} THEN tree_map
  ELSE Insert(tree_map, file_path, CHOOSE tree \in Parse(source) : TRUE)

OnChangeTree(file_path, source) ==
  IF Parse(source) = {} THEN tree_map
  ELSE Insert(tree_map, file_path, CHOOSE tree \in Parse(source) : TRUE)

\* a symbol store that drops the file's table when the update fails
OnChangeSymbolsEvicting(file_path, source) ==
  IF ExtractedTables[source] = {}
    THEN [p \in (DOMAIN symbol_map) \ {file_path} |-> symbol_map[p]]
  ELSE Insert(symbol_map, file_path,
              CHOOSE symbol_table \in ExtractedTables[source] : TRUE)

OnChangeSymbols(file_path, source) ==
  IF ExtractedTables[source] = {} THEN symbol_map
  ELSE Insert(symbol_map, file_path,
              CHOOSE symbol_table \in ExtractedTables[source] : TRUE)

\* on_change's Result: Err when the parse or the extraction failed
OnChangeStatus(source) ==
  IF ExtractedTables[source] = {} THEN "err" ELSE "ok"

\* an update that stores the text last, and only when the extraction
\* succeeded
on_change_text_last(uri, source) ==
  /\ Admitted
  /\ updates < MaxUpdates
  /\ updates' = updates + 1
  /\ IF to_file_path(uri) = {}
       THEN /\ ret' = Ret("on_change", uri.path, "err", {[text |-> source]})
            /\ UNCHANGED <<source_map, tree_map, symbol_map, latest>>
       ELSE LET file_path == CHOOSE p \in to_file_path(uri) : TRUE IN
            /\ source_map' = IF OnChangeStatus(source) = "ok"
                               THEN OnChangeSource(file_path, source)
                               ELSE source_map
            /\ tree_map' = OnChangeTree(file_path, source)
            /\ symbol_map' = OnChangeSymbols(file_path, source)
            /\ ret' = Ret("on_change", file_path, OnChangeStatus(source),
                       {[text |-> source]})
            /\ latest' = IF OnChangeStatus(source) = "ok"
                           THEN Insert(latest, file_path, source)
                           ELSE latest
  /\ UNCHANGED <<cfg_map, workspace_dirs, inflight, phase, initialized_added, refreshes>>

\* Backend::on_change(params), called by did_open and did_change
on_change(uri, source) ==
  /\ Admitted
  /\ updates < MaxUpdates
  /\ updates' = updates + 1
  /\ IF to_file_path(uri) = {}
       THEN /\ ret' = Ret("on_change", uri.path, "err", {[text |-> source]})
            /\ UNCHANGED <<source_map, tree_map, symbol_map, latest>>
       ELSE LET file_path == CHOOSE p \in to_file_path(uri) : TRUE IN
            /\ source_map' = OnChangeSource(file_path, source)
            /\ tree_map' = OnChangeTree(file_path, source)
            /\ symbol_map' = OnChangeSymbols(file_path, source)
            /\ ret' = Ret("on_change", file_path, OnChangeStatus(source),
                       {[text |-> source]})
            /\ latest' = IF OnChangeStatus(source) = "ok"
                           THEN Insert(latest, file_path, source)
                           ELSE latest
  /\ UNCHANGED <<cfg_map, workspace_dirs, inflight, phase, initialized_added, refreshes>>

\* LanguageServer::did_open: on_change(params.text_document); an Err is logged
did_open(uri, text) == on_change(uri, text)

\* the content_changes lists of DidChangeTextDocumentParams: the protocol
\* allows any number of changes, none included
ContentChanges ==
  { << >>, <<"TxtRefs">>, <<"TxtBroken", "TxtLib">> }

\* LanguageServer::did_change: on_change with the text of
\* params.content_changes[0]; indexing an empty Vec panics
did_change(uri, content_changes) ==
  IF content_changes = << >>
    THEN /\ phase \in Serving
         /\ phase' = "panicked"
         /\ UNCHANGED <<source_map, tree_map, symbol_map, cfg_map, workspace_dirs,
                        inflight, initialized_added, ret, latest, updates, refreshes>>
    ELSE on_change(uri, content_changes[1])

\* a choice of directories that drops the removed keys and scans the kept
\* ones again
cfg_files_rescanning(added, removed) ==
  ((DOMAIN cfg_map) \ to_path_buf_set(removed)) \cup to_path_buf_set(added)

\* on_change_workspace_folders, lines 82-93: the directories to scan
cfg_files(added, removed) ==
  { path \in ((DOMAIN cfg_map) \ to_path_buf_set(removed))
               \cup to_path_buf_set(added) :
      path \notin DOMAIN cfg_map }

\* on_change_workspace_folders, lines 103-108: the files of the new map that
\* have no symbol table at this moment
Uncached(new_cfg_map) ==
  { file \in UNION { new_cfg_map[d] : d \in DOMAIN new_cfg_map } :
      file \notin DOMAIN symbol_map }

\* a bulk indexing that one unreadable or unextractable file empties
BulkIndexAllOrNothing(files) ==
  IF \E f \in files : ExtractedFiles[f] = {} THEN << >>
  ELSE [file \in files |-> CHOOSE symbol_table \in ExtractedFiles[file] : TRUE]

\* on_change_workspace_folders, lines 109-119: the local symbol_map, holding
\* every uncached file that could be read, parsed and extracted
BulkIndex(files) ==
  [file \in { f \in files : ExtractedFiles[f] # {} } |->
     CHOOSE symbol_table \in ExtractedFiles[file] : TRUE]

\* history: the texts the bulk indexing parsed and extracted
BulkLatest(files) ==
  [file \in DOMAIN BulkIndex(files) \cup DOMAIN latest |->
     IF file \in DOMAIN BulkIndex(files)
       THEN CHOOSE source \in read_to_string(file) : TRUE
       ELSE latest[file]]

\* a dependency store that keeps its old entries under the new ones
MergeCfgMap(new_cfg_map) ==
  [d \in DOMAIN cfg_map \cup DOMAIN new_cfg_map |->
     IF d \in DOMAIN new_cfg_map THEN new_cfg_map[d] ELSE cfg_map[d]]

\* on_change_workspace_folders, lines 97-100: cfg_map.clear(), then every
\* pair of the new map inserted
ReplaceCfgMap(new_cfg_map) == new_cfg_map

\* a refresh that also brings the workspace directories up to date with the
\* folders added and removed
RebuildTrackingRoots(added, removed) ==
  /\ Len(inflight) < MaxInFlight
  /\ \E new_cfg_map \in CollectedCfgMaps[cfg_files(added, removed)] :
       /\ cfg_map' = ReplaceCfgMap(new_cfg_map)
       /\ latest' = BulkLatest(Uncached(new_cfg_map))
       /\ IF DOMAIN BulkIndex(Uncached(new_cfg_map)) = {}
            THEN /\ inflight' = inflight
                 /\ ret' = Ret("on_change_workspace_folders", << >>, "ok", {})
            ELSE /\ inflight' = Append(inflight, BulkIndex(Uncached(new_cfg_map)))
                 /\ ret' = ret
  /\ workspace_dirs' = (workspace_dirs \ to_path_buf_set(removed))
                          \cup to_path_buf_set(added)
  /\ UNCHANGED <<source_map, tree_map, symbol_map>>

\* on_change_workspace_folders up to its first await: the dependency store
\* is cleared and refilled and the bulk result computed; with nothing to
\* insert the handler returns, otherwise it is suspended at line 121
Rebuild(added, removed) ==
  /\ Len(inflight) < MaxInFlight
  /\ \E new_cfg_map \in CollectedCfgMaps[cfg_files(added, removed)] :
       /\ cfg_map' = ReplaceCfgMap(new_cfg_map)
       /\ latest' = BulkLatest(Uncached(new_cfg_map))
       /\ IF DOMAIN BulkIndex(Uncached(new_cfg_map)) = {}
            THEN /\ inflight' = inflight
                 /\ ret' = Ret("on_change_workspace_folders", << >>, "ok", {})
            ELSE /\ inflight' = Append(inflight, BulkIndex(Uncached(new_cfg_map)))
                 /\ ret' = ret
  /\ UNCHANGED <<source_map, tree_map, symbol_map, workspace_dirs>>

\* did_change_workspace_folders -> on_change_workspace_folders(event)
on_change_workspace_folders(added, removed) ==
  /\ Admitted
  /\ refreshes < MaxRefreshes
  /\ refreshes' = refreshes + 1
  /\ Rebuild(added, removed)
  /\ UNCHANGED <<phase, initialized_added, updates>>

\* the sequence without its k-th element
RemoveAt(seq, k) == SubSeq(seq, 1, k - 1) \o SubSeq(seq, k + 1, Len(seq))

\* a map without one key
Without(map, key) == [k \in (DOMAIN map) \ {key} |-> map[k]]

\* on_change_workspace_folders, line 124: the insert of one computed entry
MergeEntry(key, value) == Insert(symbol_map, key, value)

\* on_change_workspace_folders resumed after the await of line 121-123: one
\* entry of the local map is inserted; after the last one the handler returns.
\* A panic in another handler unwinds the task that polls every handler, so
\* nothing resumes after it.
on_change_workspace_folders_resume(k, key) ==
  /\ phase \in Serving
  /\ k \in DOMAIN inflight
  /\ key \in DOMAIN inflight[k]
  /\ symbol_map' = MergeEntry(key, inflight[k][key])
  /\ IF DOMAIN inflight[k] = {key}
       THEN /\ inflight' = RemoveAt(inflight, k)
            /\ ret' = Ret("on_change_workspace_folders", << >>, "ok", {})
       ELSE /\ inflight' = [inflight EXCEPT ![k] = Without(inflight[k], key)]
            /\ ret' = ret
  /\ UNCHANGED <<source_map, tree_map, cfg_map, workspace_dirs, phase, initialized_added, latest,
                 updates, refreshes>>

\* LanguageServer::initialize: the folders of the params join workspace_dirs
initialize(workspace_folders) ==
  /\ phase = "uninitialized"
  /\ phase' = "initialize"
  /\ workspace_dirs' = workspace_dirs \cup to_path_buf_set(workspace_folders)
  /\ ret' = Ret("initialize", << >>, "ok", {})
  /\ UNCHANGED <<source_map, tree_map, symbol_map, cfg_map, inflight,
                 initialized_added, latest, updates, refreshes>>

\* LanguageServer::initialized, up to the await of lines 313-315: the
\* handler is suspended and has read nothing
initialized ==
  /\ phase = "initialize"
  /\ phase' = "initialized"
  /\ UNCHANGED <<source_map, tree_map, symbol_map, cfg_map, workspace_dirs,
                 inflight, initialized_added, ret, latest, updates, refreshes>>

\* initialized resumed, lines 317-337 and 396-398: `added` is built from
\* every workspace directory that has a file name, and the handler is
\* suspended again at the first await of did_change_workspace_folders
initialized_added_folders ==
  /\ phase = "initialized"
  /\ initialized_added = {}
  /\ initialized_added' =
       { { FileUri(dir) : dir \in { d \in workspace_dirs : d # << >> } } }
  /\ UNCHANGED <<source_map, tree_map, symbol_map, cfg_map, workspace_dirs,
                 inflight, phase, ret, latest, updates, refreshes>>

\* initialized resumed again, line 400: on_change_workspace_folders with the
\* list built before, removing none
initialized_on_change_workspace_folders ==
  /\ phase = "initialized"
  /\ \E added \in initialized_added : Rebuild(added, {})
  /\ phase' = "ready"
  /\ initialized_added' = {}
  /\ UNCHANGED <<updates, refreshes>>

\* whether the node spans the point (Node::start_position, end_position)
Spans(node, point) ==
  /\ \/ node.srow < point.row
     \/ node.srow = point.row /\ node.scol <= point.column
  /\ \/ point.row < node.erow
     \/ point.row = node.erow /\ point.column <= node.ecol

\* Node::descendant_for_point_range(point, point) below node i: the walk
\* goes down into the first child that spans the point until none does
RECURSIVE Descend(_, _, _)
Descend(tree, i, point) ==
  LET inside == { j \in DOMAIN tree : tree[j].parent = i /\ Spans(tree[j], point) }
  IN  IF inside = {} THEN i
      ELSE Descend(tree, CHOOSE j \in inside : \A k \in inside : j <= k, point)

descendant_for_point_range(tree, point) == Descend(tree, 1, point)

\* Node::utf8_text(source.as_bytes()): the bytes of the given text at the
\* node's byte range, {} when the range does not lie within the text (the
\* slice panics)
utf8_text(node, source) ==
  IF node.sbyte <= node.ebyte /\ node.ebyte <= Len(TextOf(source))
    THEN { SubSeq(TextOf(source), node.sbyte + 1, node.ebyte) }
    ELSE {}

\* a lookup that searches every cached table alike, the file's own among them
LookupPairsAnyTable(file_path, tree, node, name) ==
  UNION { { [path |-> p, symbol |-> s] :
              s \in SymbolTable_find_symbol(symbol_map[p], tree, node, name) } :
          p \in DOMAIN symbol_map }

\* Backend::find_symbol, lines 251-270: the pairs (path, symbol) the lookup
\* can return for an identifier node and the name read for it. The file's
\* own table comes first; the other tables are searched in the iteration
\* order of the DashMap, so any of their matches can be the one returned.
LookupPairs(file_path, tree, node, name) ==
  LET own == IF file_path \in DOMAIN symbol_map
               THEN { [path |-> file_path, symbol |-> s] :
                        s \in SymbolTable_find_symbol(symbol_map[file_path], tree, node, name) }
               ELSE {}
      others == UNION { { [path |-> p, symbol |-> s] :
                            s \in SymbolTable_find_symbol(symbol_map[p], tree, node, name) } :
                        p \in (DOMAIN symbol_map) \ {file_path} }
  IN  IF own # {} THEN own ELSE others

\* Backend::find_symbol: the results it can return. [status |-> "err"] is
\* Err (no cached text or tree); with status "ok", value {} is Ok(None) and
\* {pair} is Ok(Some(pair)). The name of an identifier node is read from the
\* cached text at the byte range the node has in the cached tree (line 250);
\* [status |-> "panic"] is the slice of a text too short for that range.
find_symbol(file_path, point) ==
  IF file_path \notin DOMAIN source_map \/ file_path \notin DOMAIN tree_map
    THEN { [status |-> "err", value |-> {}] }
  ELSE LET tree == tree_map[file_path]
           node == descendant_for_point_range(tree, point)
           names == utf8_text(tree[node], source_map[file_path])
       IN  IF tree[node].kind # "identifier"
             THEN { [status |-> "ok", value |-> {}] }
           ELSE IF names = {}
             THEN { [status |-> "panic", value |-> {}] }
           ELSE LET pairs == LookupPairs(file_path, tree, node,
                                         CHOOSE name \in names : TRUE)
                IN  IF pairs = {}
                      THEN { [status |-> "ok", value |-> {}] }
                      ELSE { [status |-> "ok", value |-> {pair}] : pair \in pairs }

\* Path::strip_prefix(base) on a path that starts with base
strip_prefix(path, base) == SubSeq(path, Len(base) + 1, Len(path))

\* Backend::get_relative_path(path).unwrap_or(path): the path relative to the
\* first workspace directory, in the iteration order of the DashSet, that is
\* a prefix of it; the path itself when none is
get_relative_path(path) ==
  IF \E dir \in workspace_dirs : IsPrefix(dir, path)
    THEN { strip_prefix(path, dir) : dir \in { d \in workspace_dirs : IsPrefix(d, path) } }
    ELSE { path }

\* Backend::hover: the results it can return
HoverResults(file_path, point) ==
  UNION { IF r.status = "err" \/ r.value = {}
            THEN { r }
            ELSE UNION { { [status |-> "ok",
                            value |-> { [path |-> shown,
                                         variant |-> pair.symbol.variant,
                                         description |-> pair.symbol.description] }] :
                             shown \in get_relative_path(pair.path) } :
                         pair \in r.value } :
          r \in find_symbol(file_path, point) }

\* Backend::goto_definition: the results it can return
GotoDefinitionResults(file_path, point) ==
  UNION { IF r.status = "err" \/ r.value = {}
            THEN { r }
            ELSE { [status |-> "ok",
                    value |-> { [path |-> pair.path,
                                 variant |-> pair.symbol.variant,
                                 range |-> pair.symbol.range] }] :
                     pair \in r.value } :
          r \in find_symbol(file_path, point) }

\* the end of a query handler: its answer, or the panic of find_symbol
\* that takes the process down
Answer(op, file_path, r) ==
  IF r.status = "panic"
    THEN phase' = "panicked" /\ ret' = ret
    ELSE phase' = phase /\ ret' = Ret(op, file_path, r.status, r.value)

\* a hover that registers the directory of the queried file as a workspace
\* directory before it answers
hover_registering(uri, point) ==
  /\ phase \in Serving
  /\ IF to_file_path(uri) = {}
       THEN /\ ret' = Ret("hover", uri.path, "invalid_request", {})
            /\ phase' = phase
            /\ workspace_dirs' = workspace_dirs
       ELSE \E file_path \in to_file_path(uri) :
              /\ workspace_dirs' = workspace_dirs \cup { Parent(file_path) }
              /\ \E r \in HoverResults(file_path, point) :
                   Answer("hover", file_path, r)
  /\ UNCHANGED <<source_map, tree_map, symbol_map, cfg_map,
                 inflight, initialized_added, latest, updates, refreshes>>

\* LanguageServer::hover: file_path_and_point_from_params, then Backend::hover
hover(uri, point) ==
  /\ phase \in Serving
  /\ IF to_file_path(uri) = {}
       THEN ret' = Ret("hover", uri.path, "invalid_request", {}) /\ phase' = phase
       ELSE \E file_path \in to_file_path(uri) :
              \E r \in HoverResults(file_path, point) :
                Answer("hover", file_path, r)
  /\ UNCHANGED <<source_map, tree_map, symbol_map, cfg_map, workspace_dirs,
                 inflight, initialized_added, latest, updates, refreshes>>

\* LanguageServer::goto_definition
goto_definition(uri, point) ==
  /\ phase \in Serving
  /\ IF to_file_path(uri) = {}
       THEN ret' = Ret("goto_definition", uri.path, "invalid_request", {})
            /\ phase' = phase
       ELSE \E file_path \in to_file_path(uri) :
              \E r \in GotoDefinitionResults(file_path, point) :
                Answer("goto_definition", file_path, r)
  /\ UNCHANGED <<source_map, tree_map, symbol_map, cfg_map, workspace_dirs,
                 inflight, initialized_added, latest, updates, refreshes>>

\* a dependency lookup that gathers the files of every config, whether or
\* not the config lists file_path
get_all_dependencies(file_path) ==
  UNION { cfg_map[d] : d \in DOMAIN cfg_map }

\* Backend::get_dependencies(file_path): the files of every cfg_map entry
\* whose set contains file_path
get_dependencies(file_path) ==
  UNION { cfg_map[d] : d \in { e \in DOMAIN cfg_map : file_path \in cfg_map[e] } }

\* a CompletionItem (label, kind, documentation; the rest is Default)
CompletionItem(label, kind, documentation) ==
  [label |-> label, kind |-> kind, documentation |-> documentation]

\* completion, lines 151-159: the item of a global variable
VariableItem(name, symbol) ==
  CompletionItem(name, "VARIABLE", { symbol.description })

\* completion, lines 164-177: the item of a function; its documentation is
\* symbol.comments.map(..), absent when comments is None
FunctionItem(name, symbol) ==
  CompletionItem(name, "FUNCTION",
                 { symbol.signature \o "\n  -------\n  " \o comments :
                     comments \in symbol.comments })

\* completion, lines 146-179: the items of one symbol table, as a bag (the
\* Vec's order is that of the HashMaps)
TableItems(symbol_table) ==
  SetToBag({ VariableItem(name, symbol_table.global_variables[name]) :
               name \in DOMAIN symbol_table.global_variables })
  (+) SetToBag({ FunctionItem(name, symbol_table.functions[name]) :
                   name \in DOMAIN symbol_table.functions })

\* completion, lines 144-180: flat_map over the gathered tables
RECURSIVE GatherItems(_)
GatherItems(files) ==
  IF files = {} THEN EmptyBag
  ELSE LET file == CHOOSE f \in files : TRUE
       IN  TableItems(symbol_map[file]) (+) GatherItems(files \ {file})

\* Backend::completion(file_path, _point): the items of the cached tables
\* of the dependencies of file_path
CompletionItems(file_path) ==
  GatherItems({ file \in get_dependencies(file_path) : file \in DOMAIN symbol_map })

\* LanguageServer::completion: file_path_and_point_from_params, then
\* Backend::completion, which does not read the position
completion(uri) ==
  /\ phase \in Serving
  /\ IF to_file_path(uri) = {}
       THEN ret' = Ret("completion", uri.path, "invalid_request", {})
       ELSE \E file_path \in to_file_path(uri) :
              ret' = Ret("completion", file_path, "ok",
                         { [items |-> CompletionItems(file_path)] })
  /\ UNCHANGED <<source_map, tree_map, symbol_map, cfg_map, workspace_dirs,
                 inflight, phase, initialized_added, latest, updates, refreshes>>

\* SymbolTable::from_source on a generated source: parse, then
\* traverse_tree; the call returns Err or the table
from_source(layout) ==
  /\ LET tables == traverse_tree(LayoutTree(layout), 1, SymbolTable_default)
     IN  ret' = Ret("from_source", << >>,
                    IF tables = {} THEN "err" ELSE "ok",
                    { [layout |-> layout, symbol_table |-> t] : t \in tables })
  /\ UNCHANGED <<source_map, tree_map, symbol_map, cfg_map, workspace_dirs,
                 inflight, phase, initialized_added, latest, updates, refreshes>>

\* ------------------------------------------------------------ claims

\* Option of a map entry: {value} when the key is present, {} when not
Entry(map, key) == IF key \in DOMAIN map THEN {map[key]} ELSE {}

\* the paths of the documents the editor can name
FilePaths == UNION { to_file_path(uri) : uri \in Uris }

Main == <<"w", "main.fab">>
Util == <<"lib", "util.fab">>
Extra == <<"w", "sub", "extra.fab">>
Bin == <<"w", "bin.fab">>

\* C1: when update_file(p, t) fails, in parsing or in extraction, the tree
\* entry and the symbol-table entry of p are what they were before the call.
C1_FailedUpdateKeepsTreeAndSymbols ==
  [][updates' # updates =>
       \A uri \in Uris, source \in Texts :
         (on_change(uri, source) /\ ret'.status = "err")
           => \A p \in to_file_path(uri) :
                /\ Entry(tree_map', p) = Entry(tree_map, p)
                /\ Entry(symbol_map', p) = Entry(symbol_map, p)]_vars

\* C2: every cached symbol table is the table extracted from the text of
\* its path that was parsed and extracted last.
C2_SymbolTableReflectsLatestText ==
  \A p \in DOMAIN symbol_map :
    /\ p \in DOMAIN latest
    /\ symbol_map[p] \in ExtractedTables[latest[p]]

\* C3: the merge of the bulk result changes the table of no file that has
\* one at the moment of the merge.
C3_BulkMergeKeepsCachedTables ==
  [][inflight' # inflight =>
       \A k \in DOMAIN inflight : \A key \in DOMAIN inflight[k] :
         on_change_workspace_folders_resume(k, key)
           => \A p \in DOMAIN symbol_map : symbol_map'[p] = symbol_map[p]]_vars

\* C4: hover and goto_definition on a path that update_file never indexed
\* return the empty outcome Ok(None), never an error.
C4_QueryOnUnindexedIsNoResult ==
  ( /\ ret.op \in {"hover", "goto_definition"}
    /\ ret.path \in FilePaths
    /\ ret.path \notin DOMAIN source_map )
    => (ret.status = "ok" /\ ret.value = {})

\* the directories that hold exactly one config file
SingleCfgDirs ==
  { d \in DiskDirs :
      Cardinality({ c \in DiskFiles : Parent(c) = d /\ PathExtension(c) = "cfg" }) = 1 }

\* the config file of a directory that holds exactly one
CfgOf(d) == CHOOSE c \in DiskFiles : Parent(c) = d /\ PathExtension(c) = "cfg"

\* C5: after refresh_workspace with D among the added directories, where D
\* holds one config file: every `input = foo.fab` of it with D/foo.fab
\* present is in the entry of D; if none of its inputs resolves, the entry
\* of D is absent or empty; and no error is returned.
C5_AddedDirGetsItsInputs ==
  [][refreshes' # refreshes => \A added \in AddedLists, removed \in RemovedLists :
       on_change_workspace_folders(added, removed)
         => /\ ret'.op = "on_change_workspace_folders" => ret'.status = "ok"
            /\ \A D \in to_path_buf_set(added) \cap SingleCfgDirs :
                 /\ \A ref \in extract_inputs(CfgOf(D)) :
                      \A f \in canonicalize(Join(D, ref)) :
                        PathExtension(f) = "fab"
                          => (D \in DOMAIN cfg_map' /\ f \in cfg_map'[D])
                 /\ (\A ref \in extract_inputs(CfgOf(D)) : ResolveInput(D, ref) = {})
                      => (D \notin DOMAIN cfg_map' \/ cfg_map'[D] = {})]_vars

\* C6: refresh_workspace(added, removed) leaves as dependency store an
\* output of the builder over S, the directories of (tracked \ removed) \cup
\* added that are not tracked; an entry tracked before survives only as
\* the freshly scanned entry of a directory under S.
C6_RebuildReplacesWholesale ==
  [][refreshes' # refreshes => \A added \in AddedLists, removed \in RemovedLists :
       on_change_workspace_folders(added, removed)
         => LET tracked == DOMAIN cfg_map
                S == { d \in (tracked \ to_path_buf_set(removed))
                               \cup to_path_buf_set(added) : d \notin tracked }
            IN  /\ cfg_map' \in collect_cfg_map(S)
                /\ \A d \in tracked \cap DOMAIN cfg_map' :
                     \E s \in S : IsPrefix(s, d) /\ s # d]_vars

\* a refresh has completed and the entries of /w, scanned by `initialized`
\* and still valid on disk, are gone
C6_Witness ==
  /\ ret.op = "on_change_workspace_folders"
  /\ refreshes = 1
  /\ inflight = << >>
  /\ <<"w">> \in workspace_dirs
  /\ DOMAIN cfg_map = { <<"y">> }

\* C7: a directory tracked before refresh_workspace(added, removed) and not
\* in added keeps its entry, key and value.
C7_KnownDirsKeepEntries ==
  [][refreshes' # refreshes => \A added \in AddedLists, removed \in RemovedLists :
       on_change_workspace_folders(added, removed)
         => \A d \in (DOMAIN cfg_map) \ to_path_buf_set(added) :
              d \in DOMAIN cfg_map' /\ cfg_map'[d] = cfg_map[d]]_vars

\* C8: once a refresh has completed, every file of the dependency store that
\* can be read, parsed and extracted has a symbol table; a file that cannot
\* has none unless update_file gave it one; and the refresh returns Ok.
C8_BulkIndexCachesEveryReadableFile ==
  /\ inflight = << >>
       => \A d \in DOMAIN cfg_map : \A f \in cfg_map[d] :
            ExtractedFiles[f] # {} => f \in DOMAIN symbol_map
  /\ \A f \in (DOMAIN symbol_map) \ (DOMAIN source_map) :
       f \in DiskFiles /\ symbol_map[f] \in ExtractedFiles[f]
  /\ ret.op = "on_change_workspace_folders" => ret.status = "ok"

\* a refresh has completed with nothing interleaved: main.fab and util.fab
\* are indexed beside the unreadable bin.fab and the unextractable extra.fab
C8_Witness ==
  /\ ret.op = "on_change_workspace_folders"
  /\ inflight = << >>
  /\ source_map = << >>
  /\ <<"w">> \in DOMAIN cfg_map /\ <<"w", "sub">> \in DOMAIN cfg_map
  /\ Bin \in cfg_map[<<"w">>]
  /\ Extra \in cfg_map[<<"w", "sub">>]
  /\ DOMAIN symbol_map = {Main, Util}

\* C9: after update_file(p, t) has returned, Ok or Err, the text store holds
\* t for p.
C9_TextReplacedUnconditionally ==
  (ret.op = "on_change" /\ ret.path \in FilePaths)
    => (ret.path \in DOMAIN source_map /\ ret.value = {[text |-> source_map[ret.path]]})

\* update_file has failed on main.fab, in the extraction, after an earlier
\* success there, and the text store holds the failed text
C9_Witness ==
  /\ ret.op = "on_change"
  /\ ret.status = "err"
  /\ ret.path = Main
  /\ Main \in DOMAIN latest
  /\ source_map[Main] = "TxtBroken"
  /\ updates = 2

\* kind() of the parent of a node, "" when it has none
ParentKind(tree, node) ==
  IF tree[node].parent = 0 THEN "" ELSE tree[tree[node].parent].kind

\* kind() of the grandparent of a node, "" when it has none
GrandparentKind(tree, node) ==
  IF tree[node].parent = 0 \/ tree[tree[node].parent].parent = 0 THEN ""
  ELSE tree[tree[tree[node].parent].parent].kind

\* C10: a call site and a header reference resolve against the function
\* table alone; any other reference against the function table first, then
\* against the global-variable table.
C10_OtherContextTriesFunctionsFirst ==
  \A p \in DOMAIN tree_map, q \in DOMAIN symbol_map :
    \A n \in DOMAIN tree_map[p] :
      LET tree == tree_map[p]
          name == tree[n].text
          table == symbol_map[q]
      IN  tree[n].kind = "identifier"
            => SymbolTable_find_symbol(table, tree, n, name)
                 = IF \/ ParentKind(tree, n) = "call"
                      \/ GrandparentKind(tree, n)
                           \in {"function_definition", "asm_function_definition"}
                      \/ name \in DOMAIN table.functions
                     THEN GetSymbol(table.functions, "function", name)
                     ELSE GetSymbol(table.global_variables, "variable", name)

\* C10, amended: a call site and a header reference resolve against the
\* function table alone; any other reference that has a grandparent node
\* against the global-variable table alone; an identifier that is no call
\* site and has no grandparent node matches nothing.
C10_ContextSelectsTable ==
  \A p \in DOMAIN tree_map, q \in DOMAIN symbol_map :
    \A n \in DOMAIN tree_map[p] :
      LET tree == tree_map[p]
          name == tree[n].text
          table == symbol_map[q]
      IN  tree[n].kind = "identifier"
            => SymbolTable_find_symbol(table, tree, n, name)
                 = IF \/ ParentKind(tree, n) = "call"
                      \/ GrandparentKind(tree, n)
                           \in {"function_definition", "asm_function_definition"}
                     THEN GetSymbol(table.functions, "function", name)
                     ELSE IF GrandparentKind(tree, n) = "" THEN {}
                     ELSE GetSymbol(table.global_variables, "variable", name)

\* hover on `score` in the buffer that defines fn score, outside a call and
\* outside a header, has answered with the global variable of util.fab
C10_Witness ==
  /\ ret.op = "hover"
  /\ ret.status = "ok"
  /\ ret.path = Main
  /\ Main \in DOMAIN source_map /\ source_map[Main] = "TxtRefs"
  /\ Main \in DOMAIN symbol_map
  /\ "score" \in DOMAIN symbol_map[Main].functions
  /\ \E v \in ret.value : v.variant = "variable" /\ v.description = "U score = 0"

\* the matches SymbolTable::find_symbol has for the identifier `node` in the
\* cached table of file q
TableMatches(q, tree, node) ==
  SymbolTable_find_symbol(symbol_map[q], tree, node, tree[node].text)

\* what goto_definition answers for a symbol of file q
Location(q, s) == [path |-> q, variant |-> s.variant, range |-> s.range]

\* C11: for an identifier under the cursor in file p, the answer is p's own
\* match whenever p's table has one, whatever the other cached tables hold;
\* otherwise a match of some other cached table when one has it; and
\* "no result" only when no cached table matches.
C11_OwnTableFirst ==
  [][(ret'.op = "goto_definition" /\ updates' = updates /\ refreshes' = refreshes
        /\ inflight' = inflight /\ phase' = phase) =>
       \A uri \in { u \in Uris : u.path = ret'.path }, point \in Points :
         goto_definition(uri, point)
           => \A p \in to_file_path(uri) :
                (/\ p \in DOMAIN source_map
                 /\ p \in DOMAIN tree_map
                 /\ tree_map[p][descendant_for_point_range(tree_map[p], point)].kind
                      = "identifier")
                  => LET tree == tree_map[p]
                         node == descendant_for_point_range(tree, point)
                         own == IF p \in DOMAIN symbol_map
                                  THEN TableMatches(p, tree, node) ELSE {}
                         others == { q \in (DOMAIN symbol_map) \ {p} :
                                       TableMatches(q, tree, node) # {} }
                     IN  /\ ret'.status = "ok"
                         /\ own # {}
                              => ret'.value = { Location(p, s) : s \in own }
                         /\ (own = {} /\ others # {})
                              => \E q \in others :
                                   ret'.value = { Location(q, s) :
                                                    s \in TableMatches(q, tree, node) }
                         /\ ret'.value = {} => (own = {} /\ others = {})]_vars

\* goto_definition on the name `add` in the header of main.fab's buffer has
\* answered with main.fab, while util.fab's cached table defines fn add too
C11_Witness ==
  /\ ret.op = "goto_definition"
  /\ ret.status = "ok"
  /\ ret.path = Main
  /\ Main \in DOMAIN symbol_map /\ Util \in DOMAIN symbol_map
  /\ "add" \in DOMAIN symbol_map[Main].functions
  /\ "add" \in DOMAIN symbol_map[Util].functions
  /\ \E v \in ret.value :
       /\ v.path = Main
       /\ v.variant = "function"
       /\ v.range = symbol_map[Main].functions["add"].range

\* whether some dependency-store entry lists both p and q
SharesConfig(p, q) ==
  \E d \in DOMAIN cfg_map : p \in cfg_map[d] /\ q \in cfg_map[d]

\* how many of the emitted candidates have this label and kind
Candidates(items, label, kind) ==
  BagCardinality([c \in { e \in DOMAIN items : e.label = label /\ e.kind = kind }
                    |-> items[c]])

\* the names defined by the cached tables
CachedNames ==
  UNION { DOMAIN symbol_map[q].functions \cup DOMAIN symbol_map[q].global_variables :
            q \in DOMAIN symbol_map }

\* C12: completion(p) emits one candidate per function and per global
\* variable of exactly the cached files q that share a dependency-store
\* entry with p, and no other candidate.
C12_CompletionScopedByConfig ==
  [][(ret'.op = "completion" /\ updates' = updates /\ refreshes' = refreshes
        /\ inflight' = inflight /\ phase' = phase) =>
       \A uri \in { u \in Uris : u.path = ret'.path } :
         completion(uri)
           => \A p \in to_file_path(uri) :
                /\ ret'.status = "ok"
                /\ \A v \in ret'.value :
                     LET items == v.items
                         sharing == { q \in DOMAIN symbol_map : SharesConfig(p, q) }
                     IN  \A label \in CachedNames \cup { c.label : c \in DOMAIN items } :
                           /\ Candidates(items, label, "FUNCTION")
                                = Cardinality({ q \in sharing :
                                                  label \in DOMAIN symbol_map[q].functions })
                           /\ Candidates(items, label, "VARIABLE")
                                = Cardinality({ q \in sharing :
                                                  label \in DOMAIN symbol_map[q].global_variables })]_vars

\* completion for main.fab has answered while the config of /w lists
\* main.fab and util.fab, both cached: the candidates hold the function of
\* main.fab and the function and the variable of util.fab
C12_Witness ==
  /\ ret.op = "completion"
  /\ ret.path = Main
  /\ inflight = << >>
  /\ <<"w">> \in DOMAIN cfg_map
  /\ {Main, Util} \subseteq cfg_map[<<"w">>]
  /\ {Main, Util} \subseteq DOMAIN symbol_map
  /\ source_map = << >>
  /\ \E v \in ret.value :
       /\ Candidates(v.items, "main", "FUNCTION") = 1
       /\ Candidates(v.items, "add", "FUNCTION") = 1
       /\ Candidates(v.items, "score", "VARIABLE") = 1

\* the path hover would show if it shortened by the nearest root: relative
\* to the longest workspace directory that contains it, itself when none does
NearestRelative(path) ==
  LET roots == { d \in workspace_dirs : IsPrefix(d, path) }
  IN  IF roots = {} THEN path
      ELSE strip_prefix(path, CHOOSE d \in roots : \A e \in roots : Len(e) <= Len(d))

\* the documents of a session whose workspace folders are nested
NestedUris == { FileUri(Main), FileUri(Extra) }

\* the workspace_folders lists of such a session
NestedFolders ==
  { {FileUri(<<"w">>), FileUri(<<"w", "sub">>)}, {FileUri(<<"w", "sub">>)}, {FileUri(<<"y">>)} }

\* C13: on a match, hover returns the symbol's rendered description and the
\* defining file's path relative to the nearest (longest) workspace root
\* that contains it, the unshortened path when no root contains it.
C13_HoverShortensByNearestRoot ==
  [][(ret'.op = "hover" /\ updates' = updates /\ refreshes' = refreshes
        /\ inflight' = inflight /\ phase' = phase) =>
       \A uri \in { u \in NestedUris : u.path = ret'.path }, point \in Points :
         hover(uri, point)
           => \A p \in to_file_path(uri) :
                \A v \in ret'.value :
                  \E r \in find_symbol(p, point) : \E pair \in r.value :
                    /\ v.description = pair.symbol.description
                    /\ v.path = NearestRelative(pair.path)]_vars

NextNested ==
  \/ \E workspace_folders \in NestedFolders : initialize(workspace_folders)
  \/ initialized
  \/ initialized_added_folders
  \/ initialized_on_change_workspace_folders
  \/ \E uri \in NestedUris, text \in Texts : did_open(uri, text)
  \/ \E added \in AddedLists, removed \in RemovedLists :
       on_change_workspace_folders(added, removed)
  \/ \E k \in DOMAIN inflight : \E key \in DOMAIN inflight[k] :
       on_change_workspace_folders_resume(k, key)
  \/ \E uri \in NestedUris, point \in Points : hover(uri, point)
  \/ \E uri \in NestedUris, point \in Points : goto_definition(uri, point)
  \/ \E uri \in NestedUris : completion(uri)

\* the server in a session with nested workspace folders
SpecNested == Init /\ [][NextNested]_vars

\* C14: every candidate of completion carries documentation: a global
\* variable's is its rendered description, and a function's is present
\* whether or not the function has preceding comments.
C14_EveryCandidateDocumented ==
  [][(ret'.op = "completion" /\ updates' = updates /\ refreshes' = refreshes
        /\ inflight' = inflight /\ phase' = phase) =>
       \A uri \in { u \in Uris : u.path = ret'.path } :
         completion(uri)
           => \A p \in to_file_path(uri) :
                \A v \in ret'.value : \A c \in DOMAIN v.items :
                  /\ c.documentation # {}
                  /\ c.kind = "VARIABLE"
                       => \E q \in DOMAIN symbol_map :
                            /\ SharesConfig(p, q)
                            /\ c.label \in DOMAIN symbol_map[q].global_variables
                            /\ c.documentation
                                 = { symbol_map[q].global_variables[c.label].description }]_vars

\* C15: no event and no query is process-fatal: whatever did_open,
\* did_change, the workspace-folder handler, hover, goto_definition and
\* completion are called with, the server never ends in a panic.
C15_NothingIsProcessFatal == phase # "panicked"

\* C16: hover, goto_definition and completion are read-only: whatever their
\* arguments and the state, a query leaves the text store, the tree store,
\* the symbol store, the dependency store and the workspace roots unchanged.
C16_QueriesAreReadOnly ==
  [][\/ UNCHANGED stores
      \/ /\ \A uri \in Uris, point \in Points :
              ~ hover(uri, point) /\ ~ goto_definition(uri, point)
         /\ \A uri \in Uris : ~ completion(uri)]_vars

\* goto_definition has answered with a location while every store of the
\* index holds entries
C16_Witness ==
  /\ ret.op = "goto_definition"
  /\ ret.status = "ok"
  /\ ret.value # {}
  /\ source_map # << >> /\ tree_map # << >> /\ symbol_map # << >>
  /\ cfg_map # << >> /\ workspace_dirs # {}

\* C17: no eviction from the per-file stores: a path that has an entry in
\* the text store, the tree store or the symbol store has one in that store
\* after every step, whatever update, refresh or query the step is.
C17_NoEviction ==
  [][/\ DOMAIN source_map \subseteq DOMAIN source_map'
     /\ DOMAIN tree_map \subseteq DOMAIN tree_map'
     /\ DOMAIN symbol_map \subseteq DOMAIN symbol_map']_vars

\* a refresh has emptied the dependency store after main.fab was opened and
\* the files of /w were bulk-indexed: the three per-file stores still hold
\* their entries
C17_Witness ==
  /\ ret.op = "on_change_workspace_folders"
  /\ refreshes = 1
  /\ inflight = << >>
  /\ cfg_map = << >>
  /\ Main \in DOMAIN source_map /\ Main \in DOMAIN tree_map
  /\ {Main, Util} \subseteq DOMAIN symbol_map

\* C18: update_file is idempotent: in the state update_file(p, t) leaves,
\* applying update_file(p, t) once more gives the same text, tree and
\* symbol-table stores, whatever the state before and whether it succeeds.
C18_UpdateIsIdempotent ==
  [][updates' # updates =>
       \A uri \in { u \in Uris : u.path = ret'.path }, source \in Texts :
         on_change(uri, source)
           => \A p \in to_file_path(uri) :
                /\ OnChangeSource(p, source)' = source_map'
                /\ OnChangeTree(p, source)' = tree_map'
                /\ OnChangeSymbols(p, source)' = symbol_map'
                /\ Entry(source_map', p) = {source}]_vars

\* update_file has replaced the bulk-indexed table of util.fab by that of an
\* edited text; the same update applied again would change no store
C18_Witness ==
  /\ ret.op = "on_change"
  /\ ret.status = "ok"
  /\ ret.path = Util
  /\ ret.value = {[text |-> "TxtRefs"]}
  /\ refreshes = 1
  /\ Util \in DOMAIN symbol_map
  /\ "score" \in DOMAIN symbol_map[Util].functions
  /\ OnChangeSource(Util, "TxtRefs") = source_map
  /\ OnChangeTree(Util, "TxtRefs") = tree_map
  /\ OnChangeSymbols(Util, "TxtRefs") = symbol_map

\* the comment lines of items j..k of a generated source, top to bottom,
\* each followed by a line break
RECURSIVE CommentLines(_, _)
CommentLines(j, k) ==
  IF j > k THEN "" ELSE CommentText(j) \o "\n" \o CommentLines(j + 1, k)

\* the last function item of a generated source that has the name of item k
LastNamed(layout, k) ==
  \A m \in (k + 1)..Len(layout) :
    ~(layout[m].kind = "function" /\ layout[m].name = layout[k].name)

\* C19: a function's rendered description is its collected preceding
\* comments, top to bottom and each followed by a line break, then the
\* signature text: the bare signature when the definition has no previous
\* sibling or a previous sibling that is no comment, and starting with the
\* comment text when a comment line stands directly above the signature.
C19_DescriptionIsCommentsThenSignature ==
  ret.op = "from_source" =>
    \A v \in ret.value : \A k \in DOMAIN v.layout :
      (v.layout[k].kind = "function" /\ LastNamed(v.layout, k)) =>
        /\ FnName(v.layout[k]) \in DOMAIN v.symbol_table.functions
        /\ LET description == v.symbol_table.functions[FnName(v.layout[k])].description
               runs == { j \in 1..k : \A m \in j..(k - 1) : v.layout[m].kind = "comment" }
           IN  /\ \E j \in runs :
                    description = CommentLines(j, k - 1) \o SigText(v.layout[k])
               /\ (k = 1 \/ v.layout[k - 1].kind # "comment")
                    => description = SigText(v.layout[k])
               /\ (k > 1 /\ v.layout[k - 1].kind = "comment" /\ v.layout[k].gap = 0)
                    => \E j \in runs \ {k} :
                         description = CommentLines(j, k - 1) \o SigText(v.layout[k])

\* the table of a source with two comment lines directly above a function:
\* the description holds both lines, the upper one first
C19_Witness ==
  /\ ret.op = "from_source"
  /\ \E v \in ret.value :
       /\ Len(v.layout) = 3
       /\ v.layout[1].kind = "comment" /\ v.layout[2].kind = "comment"
       /\ v.layout[3].kind = "function" /\ v.layout[3].name = "a"
       /\ v.layout[2].gap = 0 /\ v.layout[3].gap = 0
       /\ v.symbol_table.functions["fa"].description = "// c1\n// c2\nfn fa(U va)"

\* one call per behaviour: the function's result does not depend on the state
NextExtract == ret.op = "new" /\ \E layout \in Layouts : from_source(layout)

\* SymbolTable::from_source applied to the generated sources
SpecExtract == Init /\ [][NextExtract]_vars

\* C20: every path in every value set of the dependency store is absolute
\* and canonical (no "." or ".." component), exists on disk and has the
\* extension "fab"; a reference that resolves to no existing file, or to a
\* file with another extension such as the macro one, never appears.
C20_DependenciesAreCanonicalSources ==
  \A d \in DOMAIN cfg_map : \A f \in cfg_map[d] :
    /\ f \in DiskFiles \cup DiskDirs
    /\ \A i \in DOMAIN f : f[i] \notin {".", ".."}
    /\ PathExtension(f) = "fab"
    /\ f[Len(f)] \notin {"gone.fab", "gfx.macrofab"}

\* a refresh has scanned /w, whose configs name a missing file, a macro
\* file and `../main.fab`: the entries hold the canonical sources only
C20_Witness ==
  /\ refreshes = 1
  /\ inflight = << >>
  /\ workspace_dirs = {}
  /\ DOMAIN cfg_map = { <<"w">>, <<"w", "sub">> }
  /\ cfg_map[<<"w">>] = {Main, Bin, Util}
  /\ cfg_map[<<"w", "sub">>] = {Main, Extra}

\* C21: no half-updated file state is visible: after update_file(p, t), the
\* text, the tree and the symbol table of p are either all what they were
\* before the call or all derived from t.
C21_UpdateIsAllOrNothing ==
  [][updates' # updates =>
       \A uri \in { u \in Uris : u.path = ret'.path }, source \in Texts :
         on_change(uri, source)
           => \A p \in to_file_path(uri) :
                \/ /\ Entry(source_map', p) = Entry(source_map, p)
                   /\ Entry(tree_map', p) = Entry(tree_map, p)
                   /\ Entry(symbol_map', p) = Entry(symbol_map, p)
                \/ /\ Entry(source_map', p) = {source}
                   /\ Parse(source) # {}
                   /\ Entry(tree_map', p) = Parse(source)
                   /\ ExtractedTables[source] # {}
                   /\ Entry(symbol_map', p) = ExtractedTables[source]]_vars

\* the config files located directly in directory d
CfgFilesIn(d) ==
  { c \in DiskFiles : Extension(c[Len(c)]) = "cfg" /\ Parent(c) = d }

\* C22: the builder's merge is commutative: whatever the order in which the
\* config files are processed, the entry of a directory is the union of the
\* resolved .fab inputs of all the config files located in it.
C22_EntryIsUnionOfItsConfigs ==
  \A d \in DOMAIN cfg_map :
    cfg_map[d] = UNION { ResolvedInputs(c) : c \in CfgFilesIn(d) }

\* C23: under fair scheduling every started operation completes: a refresh
\* suspended in its insert loop is the only operation that spans several
\* steps, and it always gets to return.
C23_StartedRefreshCompletes == (inflight # << >>) ~> (inflight = << >>)

\* the line the k-th item of a generated source starts on
RECURSIVE RowOf(_, _)
RowOf(layout, k) ==
  IF k = 1 THEN layout[1].gap
  ELSE RowOf(layout, k - 1) + ItemHeight(layout[k - 1]) + layout[k].gap

\* the items of a generated source that define a function, and those that
\* define a global variable, named `name`
FunctionItems(layout, name) ==
  { k \in DOMAIN layout : layout[k].kind = "function" /\ layout[k].name = name }
GlobalItems(layout, name) ==
  { k \in DOMAIN layout : layout[k].kind \in {"variable", "vars"} /\ layout[k].name = name }

\* the last item of a nonempty set of items
LastOf(items) == CHOOSE k \in items : \A m \in items : m <= k

\* the line a global variable's definition starts on: the item's line, or
\* the line under the header of a vars block
GlobalRow(layout, k) ==
  IF layout[k].kind = "vars" THEN RowOf(layout, k) + 1 ELSE RowOf(layout, k)

\* C24: extraction of a source with repeated names succeeds, and each table
\* maps a name to the definition that comes last in document order: the
\* entry of a function name (of a global variable name) has the range of the
\* last function item (the last global variable item) with that name.
C24_LastDefinitionWins ==
  ret.op = "from_source" =>
    /\ ret.status = "ok"
    /\ ret.value # {}
    /\ \A v \in ret.value : \A name \in Names :
         /\ LET items == FunctionItems(v.layout, name)
                key == "f" \o name
            IN  IF items = {} THEN key \notin DOMAIN v.symbol_table.functions
                ELSE /\ key \in DOMAIN v.symbol_table.functions
                     /\ v.symbol_table.functions[key].range.start.line
                          = RowOf(v.layout, LastOf(items))
         /\ LET items == GlobalItems(v.layout, name)
                key == "v" \o name
            IN  IF items = {} THEN key \notin DOMAIN v.symbol_table.global_variables
                ELSE /\ key \in DOMAIN v.symbol_table.global_variables
                     /\ v.symbol_table.global_variables[key].range.start.line
                          = GlobalRow(v.layout, LastOf(items))

\* the table of a source that defines the function fa twice and then the
\* function fb: the entry of fa is the second definition
C24_Witness ==
  /\ ret.op = "from_source"
  /\ ret.status = "ok"
  /\ \E v \in ret.value :
       /\ Len(v.layout) = 3
       /\ v.layout[1].kind = "function" /\ v.layout[1].name = "a"
       /\ v.layout[2].kind = "function" /\ v.layout[2].name = "a"
       /\ v.layout[3].kind = "function" /\ v.layout[3].name = "b"
       /\ v.symbol_table.functions["fa"].range.start.line = RowOf(v.layout, 2)
       /\ v.symbol_table.functions["fa"].range.start.line > RowOf(v.layout, 1)

\* the first item of the run of comments above item k in which every item
\* stands on the line directly above the next one, item k included (k: none)
RunStart(layout, k) ==
  LET starts == { j \in 1..k : \A m \in j..(k - 1) :
                    layout[m].kind = "comment" /\ layout[m + 1].gap = 0 }
  IN  CHOOSE j \in starts : \A m \in starts : j <= m

\* C25: the comments attached to a definition are the maximal run of comment
\* siblings directly above it in which every gap, the one between the
\* definition and the nearest comment included, is at most one line, joined
\* top to bottom.
C25_CommentsAreTheAdjacentRun ==
  ret.op = "from_source" =>
    \A v \in ret.value : \A k \in DOMAIN v.layout :
      (v.layout[k].kind = "function" /\ LastNamed(v.layout, k)) =>
        UnwrapOrEmpty(v.symbol_table.functions[FnName(v.layout[k])].comments)
          = CommentLines(RunStart(v.layout, k), k - 1)

\* the variable definitions of a tree, and those among them whose parent is
\* the module root or a vars block
VariableNodes(tree) ==
  { i \in DOMAIN tree : tree[i].kind = "variable_definition" }
GlobalNodes(tree) ==
  { i \in VariableNodes(tree) :
      tree[i].parent # 0 /\ tree[tree[i].parent].kind \in {"module", "vars_definition"} }

\* the name a variable definition declares
DeclaredName(tree, i) == tree[child_by_field_name(tree, i, "name")].text

\* C26: the global-variable table holds a name if and only if a variable
\* definition directly under the module root or a vars block declares it,
\* and its entry is such a definition: a parameter or a local of a function
\* body is never an entry, even under a name a global variable has.
C26_GlobalsAreModuleOrVarsChildren ==
  ret.op = "from_source" =>
    \A v \in ret.value :
      LET tree == LayoutTree(v.layout)
          table == v.symbol_table.global_variables
      IN  /\ DOMAIN table = { DeclaredName(tree, i) : i \in GlobalNodes(tree) }
          /\ \A name \in DOMAIN table :
               /\ \E i \in GlobalNodes(tree) :
                    /\ DeclaredName(tree, i) = name
                    /\ table[name].range = RangeOf(tree[i])
               /\ \A i \in VariableNodes(tree) \ GlobalNodes(tree) :
                    table[name].range # RangeOf(tree[i])

\* the table of a source with the variable va in a vars block, the variable
\* vb at module level and a function with the parameter and the local va:
\* both globals are entries, and the entry of va is the one of the block
C26_Witness ==
  /\ ret.op = "from_source"
  /\ \E v \in ret.value :
       /\ Len(v.layout) = 3
       /\ v.layout[1].kind = "vars" /\ v.layout[1].name = "a"
       /\ v.layout[2].kind = "variable" /\ v.layout[2].name = "b"
       /\ v.layout[3].kind = "function" /\ v.layout[3].name = "a"
       /\ DOMAIN v.symbol_table.global_variables = {"va", "vb"}
       /\ v.symbol_table.global_variables["va"].range.start.line
            = RowOf(v.layout, 1) + 1

\* C27: the removed list of a workspace-folder change has no influence: the
\* directories scanned are the added ones that are no key of the dependency
\* store, whatever is removed, and the step a refresh takes with one removed
\* list is a step it takes with every other one.
C27_RemovedIsIgnored ==
  [][refreshes' # refreshes => \A added \in AddedLists, r1 \in RemovedLists :
       on_change_workspace_folders(added, r1)
         => /\ cfg_files(added, r1) = to_path_buf_set(added) \ DOMAIN cfg_map
            /\ \A r2 \in RemovedLists :
                 /\ cfg_files(added, r2) = cfg_files(added, r1)
                 /\ on_change_workspace_folders(added, r2)]_vars

\* after a refresh in a workspace whose directory /w was tracked: only the
\* added directory /y was scanned, and /w is gone from the dependency store
\* whether or not it was named as removed
C27_Witness ==
  /\ refreshes = 1
  /\ workspace_dirs # {}
  /\ DOMAIN cfg_map = { <<"y">> }

\* C28: a refresh, from its start to the insert of its last table, leaves
\* the workspace directories, the text store and the tree store as they
\* are, and only initialize writes the workspace directories: a folder added
\* or removed later never shows in them, and a file with a table that no
\* update has been given a text for (one the bulk indexing alone has seen)
\* has no tree either.
C28_RefreshLeavesRootsTextsAndTrees ==
  [][/\ ( \/ refreshes' # refreshes
          \/ inflight' # inflight
          \/ (phase = "initialized" /\ phase' = "ready") )
        => /\ workspace_dirs' = workspace_dirs
           /\ source_map' = source_map
           /\ tree_map' = tree_map
     /\ workspace_dirs' # workspace_dirs
        => /\ phase = "uninitialized" /\ phase' = "initialize"
           /\ \E workspace_folders \in InitialFolders :
                workspace_dirs' = workspace_dirs \cup to_path_buf_set(workspace_folders)
     /\ \A p \in (DOMAIN symbol_map') \ DOMAIN source_map' :
          p \notin DOMAIN tree_map']_vars

\* a finished refresh that added the folder /y: its configuration is in the
\* dependency store and /y is no workspace directory, and util.fab, indexed
\* in bulk only, has a table and neither text nor tree
C28_Witness ==
  /\ refreshes = 1
  /\ inflight = << >>
  /\ <<"y">> \in DOMAIN cfg_map
  /\ workspace_dirs = { <<"w">>, <<"w", "sub">> }
  /\ Util \in DOMAIN symbol_map
  /\ Util \notin DOMAIN source_map
  /\ Util \notin DOMAIN tree_map

\* C29: every path with a cached tree has a cached text, and the tree is the
\* parse of that text whenever that text, the one of the path's most recent
\* update, can be parsed.
C29_TreeIsParseOfCachedText ==
  \A p \in DOMAIN tree_map :
    /\ p \in DOMAIN source_map
    /\ Parse(source_map[p]) # {} => tree_map[p] \in Parse(source_map[p])

\* main.fab after a good update and then one whose text parses and whose
\* extraction fails: the table is the old one, the tree is the new text's
C29_Witness ==
  /\ updates = 2
  /\ Main \in DOMAIN tree_map
  /\ Main \in DOMAIN symbol_map
  /\ source_map[Main] = "TxtBroken"
  /\ latest[Main] = "TxtRefs"
  /\ tree_map[Main] = TreeBroken

Next ==
  \/ \E workspace_folders \in InitialFolders : initialize(workspace_folders)
  \/ initialized
  \/ initialized_added_folders
  \/ initialized_on_change_workspace_folders
  \/ \E uri \in Uris, text \in Texts : did_open(uri, text)
  \/ \E uri \in Uris, content_changes \in ContentChanges :
       did_change(uri, content_changes)
  \/ \E added \in AddedLists, removed \in RemovedLists :
       on_change_workspace_folders(added, removed)
  \/ \E k \in DOMAIN inflight : \E key \in DOMAIN inflight[k] :
       on_change_workspace_folders_resume(k, key)
  \/ \E uri \in Uris, point \in Points : hover(uri, point)
  \/ \E uri \in Uris, point \in Points : goto_definition(uri, point)
  \/ \E uri \in Uris : completion(uri)

Spec == Init /\ [][Next]_vars

\* the server under fair scheduling: a suspended handler that can resume
\* does resume
SpecFair ==
  /\ Init
  /\ [][Next]_vars
  /\ WF_vars(\E k \in DOMAIN inflight : \E key \in DOMAIN inflight[k] :
               on_change_workspace_folders_resume(k, key))
====
